---- MODULE Spec2Model ----
(***************************************************************************)
(* UCI-PDF: recognition and validation of Unique Candidate Identifiers in  *)
(* OCR text (is_valid_uci, extract_uci) and the per-page split of a PDF    *)
(* (split_pdf_by_uci), modelled from src/main.py.                          *)
(*                                                                         *)
(* A Python str is a sequence of characters; a character is a one-element  *)
(* TLA+ string, a non-ASCII character is written by its code point         *)
(* ("U+0660").  Python indexes from 0, sequences here from 1: Python       *)
(* position p is index p + 1.                                              *)
(***************************************************************************)
EXTENDS Integers, Sequences, FiniteSets, TLC

VARIABLES
    \* one caller of is_valid_uci
    uci,            \* the argument of the latest call
    result,         \* what the latest call returned
    returned,       \* TRUE once is_valid_uci has returned for uci
    prev_uci,       \* the argument of the call before
    prev_result,    \* what that call returned
    calls,          \* number of calls made
    \* one call of extract_uci
    text,           \* extract_uci's page_text argument
    potential_UCIs, \* uci_pattern.findall(page_text)
    extracted,      \* extract_uci's return value
    scanned,        \* TRUE once extract_uci has returned
    \* one run of split_pdf_by_uci
    pc,             \* "start", "loop" or "done" ("idle": not called)
    doc_pages,      \* number of pages of the document
    i,              \* index of the next page of the loop (0-based)
    dir_exists,     \* os.path.exists(output_dir)
    files,          \* output path -> index of the page saved under it
    printed,        \* the lines printed so far
    page_text,      \* OCR text of the page handled last
    extracted_uci   \* extract_uci(page_text) of the page handled last

vars == <<uci, result, returned, prev_uci, prev_result, calls,
          text, potential_UCIs, extracted, scanned,
          pc, doc_pages, i, dir_exists, files, printed, page_text, extracted_uci>>

validate_vars == <<uci, result, returned, prev_uci, prev_result, calls>>
extract_vars == <<text, potential_UCIs, extracted, scanned>>
split_vars == <<pc, doc_pages, i, dir_exists, files, printed, page_text, extracted_uci>>

(***************************************************************************)
(* Characters and the str / re character classes the code relies on.       *)
(***************************************************************************)
AsciiDigits == <<"0", "1", "2", "3", "4", "5", "6", "7", "8", "9">>

UpperLetters == <<"A", "B", "C", "D", "E", "F", "G", "H", "I", "J", "K", "L", "M",
                  "N", "O", "P", "Q", "R", "S", "T", "U", "V", "W", "X", "Y", "Z">>

LowerLetters == <<"a", "b", "c", "d", "e", "f", "g", "h", "i", "j", "k", "l", "m",
                  "n", "o", "p", "q", "r", "s", "t", "u", "v", "w", "x", "y", "z">>

\* decimal digits outside ASCII (ARABIC-INDIC DIGIT ZERO and THREE)
OtherDigits == {"U+0660", "U+0663"}

\* a letter outside ASCII (LATIN CAPITAL LETTER E WITH ACUTE)
OtherLetters == {"U+00C9"}

Punctuation == {" ", "_", "-", "\n", "."}

Range(s) == {s[k] : k \in DOMAIN s}

DigitSet == Range(AsciiDigits)

UpperSet == Range(UpperLetters)

LowerSet == Range(LowerLetters)

IndexOf(s, c) == CHOOSE k \in DOMAIN s : s[k] = c

Chars == DigitSet \cup UpperSet \cup LowerSet
            \cup OtherDigits \cup OtherLetters \cup Punctuation

\* re: \d on a str pattern matches every Unicode decimal digit
IsDecimalDigit(c) == c \in DigitSet \cup OtherDigits

\* re: [A-Z0-9]
IsUpperAlnum(c) == c \in UpperSet \cup DigitSet

\* re: [A-HK-MRTVWXY]
IsCheckLetter(c) ==
    c \in {"A", "B", "C", "D", "E", "F", "G", "H", "K", "L", "M", "R", "T", "V", "W", "X", "Y"}

\* str.isalpha
isalpha(c) == c \in UpperSet \cup LowerSet \cup OtherLetters

\* str.isalnum
isalnum(c) == isalpha(c) \/ IsDecimalDigit(c)

\* re: \w on a str pattern is an alphanumeric character or the underscore
IsWordChar(c) == isalnum(c) \/ c = "_"

\* str.upper on one character
upper(c) == IF c \in LowerSet THEN UpperLetters[IndexOf(LowerLetters, c)] ELSE c

\* int(char) of one character: its digit value, ValueError when it is no decimal digit
IntRaises(c) == ~IsDecimalDigit(c)

int(c) ==
    IF c \in DigitSet THEN IndexOf(AsciiDigits, c) - 1
    ELSE IF c = "U+0660" THEN 0
    ELSE 3

(***************************************************************************)
(* is_valid_uci                                                            *)
(***************************************************************************)
\* the letter values without the wrap-around after P
alpha_map_no_wrap == [c \in UpperSet |-> IndexOf(UpperLetters, c)]

alpha_map ==
    [c \in UpperSet |->
        CASE c = "A" -> 1  [] c = "B" -> 2  [] c = "C" -> 3  [] c = "D" -> 4
          [] c = "E" -> 5  [] c = "F" -> 6  [] c = "G" -> 7  [] c = "H" -> 8
          [] c = "I" -> 9  [] c = "J" -> 10 [] c = "K" -> 11 [] c = "L" -> 12
          [] c = "M" -> 13 [] c = "N" -> 14 [] c = "O" -> 15 [] c = "P" -> 16
          [] c = "Q" -> 10 [] c = "R" -> 11 [] c = "S" -> 12 [] c = "T" -> 13
          [] c = "U" -> 14 [] c = "V" -> 15 [] c = "W" -> 16 [] c = "X" -> 10
          [] c = "Y" -> 11 [] c = "Z" -> 12]

\* the first 17 letters of the alphabet as check letters
check_digit_map_plain ==
    <<"A", "B", "C", "D", "E", "F", "G", "H", "I", "J", "K", "L", "M", "N", "O", "P", "Q">>

check_digit_map ==
    <<"A", "B", "C", "D", "E", "F", "G", "H", "K", "L", "M", "R", "T", "V", "W", "X", "Y">>

\* the weights one too high
multipliers_from_17 == <<17, 16, 15, 14, 13, 12, 11, 10, 9, 8, 7, 6>>

multipliers == <<16, 15, 14, 13, 12, 11, 10, 9, 8, 7, 6, 5>>

\* $ matches at the end of the string and before a newline that ends it
AtDollar(s, k) == k = Len(s) + 1 \/ (k = Len(s) /\ s[k] = "\n")

\* the pattern compiled with re.IGNORECASE on its check letter
PatternMatch_ignorecase(s) ==
    /\ Len(s) >= 13
    /\ \A k \in 1..5 : IsDecimalDigit(s[k])
    /\ IsUpperAlnum(s[6])
    /\ \A k \in 7..12 : IsDecimalDigit(s[k])
    /\ IsCheckLetter(upper(s[13]))
    /\ AtDollar(s, 14)

\* pattern.match(uci) for ^\d{5}[A-Z0-9]\d{6}[A-HK-MRTVWXY]$
PatternMatch(s) ==
    /\ Len(s) >= 13
    /\ \A k \in 1..5 : IsDecimalDigit(s[k])
    /\ IsUpperAlnum(s[6])
    /\ \A k \in 7..12 : IsDecimalDigit(s[k])
    /\ IsCheckLetter(s[13])
    /\ AtDollar(s, 14)

\* the try block: the loop over enumerate(core_uci), from index k with the sum so far;
\* raised is TRUE when alpha_map[char] raises KeyError or int(char) raises ValueError
RECURSIVE SumLoop(_, _, _)
SumLoop(core_uci, k, total_sum) ==
    IF k > Len(core_uci) THEN [raised |-> FALSE, total_sum |-> total_sum]
    ELSE LET char == core_uci[k] IN
         IF k = 6 /\ isalpha(char)
         THEN IF char \in DOMAIN alpha_map
              THEN SumLoop(core_uci, k + 1, total_sum + alpha_map[char] * multipliers[k])
              ELSE [raised |-> TRUE, total_sum |-> total_sum]
         ELSE IF IntRaises(char)
              THEN [raised |-> TRUE, total_sum |-> total_sum]
              ELSE SumLoop(core_uci, k + 1, total_sum + int(char) * multipliers[k])

\* Python's None, which is no str
None == <<"None">>

\* isinstance(x, str)
isinstance_str(x) == \A k \in DOMAIN x : x[k] \in Chars

is_valid_uci(s) ==
    IF ~isinstance_str(s) \/ Len(s) # 13 THEN FALSE
    ELSE IF ~PatternMatch(s) THEN FALSE
    ELSE LET core_uci == SubSeq(s, 1, 12)
             check_digit_provided == s[13]
             loop == SumLoop(core_uci, 1, 0)
         IN  IF loop.raised THEN FALSE
             ELSE LET remainder == loop.total_sum % 17
                      calculated_check_digit == check_digit_map[remainder + 1]
                  IN  calculated_check_digit = upper(check_digit_provided)

(***************************************************************************)
(* A caller of is_valid_uci: a first call on a candidate, then calls on    *)
(* copies of the latest argument with one character substituted (an OCR    *)
(* or transcription error).                                                *)
(***************************************************************************)
MaxResubmit == 1

Zeros(n) == [k \in 1..n |-> "0"]

\* candidates of the UCI shape: leading digit a, position-5 character c5 and check
\* character k, zeros elsewhere
Shaped(a, c5, k) == <<a>> \o Zeros(4) \o <<c5>> \o Zeros(6) \o <<k>>

LeadDigits == {"0", "1"}

Position5Chars == {"0", "J"}

LastChars == Range(check_digit_map) \cup {"I", "a"}

\* arguments of other lengths, and one that is no str
OtherArguments ==
    {<<>>, Zeros(12), Zeros(12) \o <<"A", "\n">>, Zeros(12) \o <<"A", "0">>, Zeros(13), None}

Inputs ==
    {Shaped(a, c5, k) : a \in LeadDigits, c5 \in Position5Chars, k \in LastChars}
        \cup OtherArguments

\* the characters an error puts in place of another
ErrorChars == {"7", "U+0660", "Q", "a"}

ExtractIdle ==
    /\ text = <<>>
    /\ potential_UCIs = <<>>
    /\ extracted = None
    /\ scanned = FALSE

SplitIdle ==
    /\ pc = "idle"
    /\ doc_pages = 0
    /\ i = 0
    /\ dir_exists = FALSE
    /\ files = <<>>
    /\ printed = <<>>
    /\ page_text = <<>>
    /\ extracted_uci = None

ValidateIdle ==
    /\ uci = <<>>
    /\ result = FALSE
    /\ returned = FALSE
    /\ prev_uci = <<>>
    /\ prev_result = FALSE
    /\ calls = 0

InitValidate ==
    /\ uci \in Inputs
    /\ result = FALSE
    /\ returned = FALSE
    /\ prev_uci = <<>>
    /\ prev_result = FALSE
    /\ calls = 0
    /\ ExtractIdle
    /\ SplitIdle

\* is_valid_uci(uci), first call
Validate ==
    /\ ~returned
    /\ result' = is_valid_uci(uci)
    /\ returned' = TRUE
    /\ calls' = calls + 1
    /\ UNCHANGED <<uci, prev_uci, prev_result>>
    /\ UNCHANGED extract_vars
    /\ UNCHANGED split_vars

\* is_valid_uci on the latest argument with the character at index k replaced by c
Revalidate(k, c) ==
    /\ returned
    /\ calls <= MaxResubmit
    /\ isinstance_str(uci)
    /\ k \in DOMAIN uci
    /\ c # uci[k]
    /\ prev_uci' = uci
    /\ prev_result' = result
    /\ uci' = [uci EXCEPT ![k] = c]
    /\ result' = is_valid_uci(uci')
    /\ calls' = calls + 1
    /\ UNCHANGED returned
    /\ UNCHANGED extract_vars
    /\ UNCHANGED split_vars

NextValidate ==
    \/ Validate
    \/ \E k \in 1..14, c \in ErrorChars : Revalidate(k, c)

SpecValidate == InitValidate /\ [][NextValidate]_vars

(***************************************************************************)
(* extract_uci                                                             *)
(***************************************************************************)
\* re: \b holds between index p - 1 and index p of t when exactly one of the two
\* neighbours is a word character (a missing neighbour is none)
WordBoundary(t, p) ==
    (p > 1 /\ IsWordChar(t[p - 1])) # (p <= Len(t) /\ IsWordChar(t[p]))

\* the pattern without its \b anchors
MatchAt_no_boundary(t, p) ==
    /\ p + 12 <= Len(t)
    /\ \A k \in p..(p + 12) : IsUpperAlnum(t[k])

\* uci_pattern, \b[A-Z0-9]{13}\b, matches t from index p
MatchAt(t, p) ==
    /\ p + 12 <= Len(t)
    /\ WordBoundary(t, p)
    /\ \A k \in p..(p + 12) : IsUpperAlnum(t[k])
    /\ WordBoundary(t, p + 13)

\* the start indexes of the matches re finds scanning t from index p: leftmost first,
\* the scan resumes after a match
RECURSIVE MatchStarts(_, _)
MatchStarts(t, p) ==
    IF p > Len(t) THEN <<>>
    ELSE IF MatchAt(t, p) THEN <<p>> \o MatchStarts(t, p + 13)
    ELSE MatchStarts(t, p + 1)

\* uci_pattern.findall(page_text)
findall(t) ==
    LET starts == MatchStarts(t, 1)
    IN  [n \in 1..Len(starts) |-> SubSeq(t, starts[n], starts[n] + 12)]

\* the for loop without its break: the last valid candidate wins
RECURSIVE ValidatedFrom_no_break(_, _)
ValidatedFrom_no_break(potential, n) ==
    IF n > Len(potential) THEN <<>>
    ELSE LET later == ValidatedFrom_no_break(potential, n + 1)
         IN  IF later # <<>> THEN later
             ELSE IF is_valid_uci(potential[n]) THEN potential[n]
             ELSE <<>>

\* the for loop of extract_uci from candidate n on: validated_uci after the loop
RECURSIVE ValidatedFrom(_, _)
ValidatedFrom(potential, n) ==
    IF n > Len(potential) THEN <<>>
    ELSE IF is_valid_uci(potential[n]) THEN potential[n]
    ELSE ValidatedFrom(potential, n + 1)

extract_uci(t) ==
    LET validated_uci == ValidatedFrom(findall(t), 1)
    IN  IF validated_uci # <<>> THEN validated_uci ELSE None

(***************************************************************************)
(* One call of extract_uci on a page text put together from tokens and     *)
(* separators.                                                             *)
(***************************************************************************)
MaxPieces == 3

V1 == Zeros(12) \o <<"A">>

V2 == Zeros(5) \o <<"J">> \o Zeros(6) \o <<"K">>

Bad == Zeros(12) \o <<"B">>

Pieces == {V1, V2, Bad, <<"0">>, <<"Z">>, <<" ">>, <<"_">>, <<"-">>, <<"a">>,
           <<"\n">>, <<"U+0663">>, <<"U+00C9">>}

RECURSIVE Flatten(_)
Flatten(ps) == IF ps = <<>> THEN <<>> ELSE Head(ps) \o Flatten(Tail(ps))

Texts == {Flatten(ps) : ps \in UNION {[1..n -> Pieces] : n \in 0..MaxPieces}}

InitExtract ==
    /\ text \in Texts
    /\ potential_UCIs = <<>>
    /\ extracted = None
    /\ scanned = FALSE
    /\ ValidateIdle
    /\ SplitIdle

\* extract_uci(text)
Extract ==
    /\ ~scanned
    /\ potential_UCIs' = findall(text)
    /\ extracted' = extract_uci(text)
    /\ scanned' = TRUE
    /\ UNCHANGED text
    /\ UNCHANGED validate_vars
    /\ UNCHANGED split_vars

NextExtract == Extract

SpecExtract == InitExtract /\ [][NextExtract]_vars

(***************************************************************************)
(* split_pdf_by_uci                                                        *)
(***************************************************************************)
MaxPages == 3

exam_board == "OCR"

output_dir == "output_pdfs"

\* what OCR may read on a page
PageTexts ==
    {<<>>, V1, V2, Bad, Bad \o <<" ">> \o V1, V1 \o <<"\n">> \o V2, <<"_">> \o V1,
     V2 \o <<"0">>}

\* os.path.join(output_dir, f'{extracted_uci}_{exam_board}.pdf')
OutputPath(u) == <<output_dir, u, exam_board>>

Init ==
    /\ pc = "start"
    /\ doc_pages \in 0..MaxPages
    /\ i = 0
    /\ dir_exists \in BOOLEAN
    /\ files = <<>>
    /\ printed = <<>>
    /\ page_text = <<>>
    /\ extracted_uci = None
    /\ ValidateIdle
    /\ ExtractIdle

\* the output directory is made when missing, the document is opened
Start ==
    /\ pc = "start"
    /\ dir_exists' = TRUE
    /\ pc' = "loop"
    /\ UNCHANGED <<doc_pages, i, files, printed, page_text, extracted_uci>>
    /\ UNCHANGED validate_vars
    /\ UNCHANGED extract_vars

\* the loop body without its "if extracted_uci:" guard
ProcessPage_save_always(t) ==
    /\ pc = "loop"
    /\ i < doc_pages
    /\ page_text' = t
    /\ extracted_uci' = extract_uci(t)
    /\ files' = (OutputPath(extracted_uci') :> i) @@ files
    /\ printed' = Append(printed, [uci |-> extracted_uci', page |-> i])
    /\ i' = i + 1
    /\ UNCHANGED <<pc, doc_pages, dir_exists>>
    /\ UNCHANGED validate_vars
    /\ UNCHANGED extract_vars

\* one pass of the loop over the pages, on page i with OCR text t
ProcessPage(t) ==
    /\ pc = "loop"
    /\ i < doc_pages
    /\ page_text' = t
    /\ extracted_uci' = extract_uci(t)
    /\ IF extracted_uci' # None
       THEN /\ files' = (OutputPath(extracted_uci') :> i) @@ files
            /\ printed' = Append(printed, [uci |-> extracted_uci', page |-> i])
       ELSE UNCHANGED <<files, printed>>
    /\ i' = i + 1
    /\ UNCHANGED <<pc, doc_pages, dir_exists>>
    /\ UNCHANGED validate_vars
    /\ UNCHANGED extract_vars

\* the loop has run out of pages, the document is closed
Finish ==
    /\ pc = "loop"
    /\ i = doc_pages
    /\ pc' = "done"
    /\ UNCHANGED <<doc_pages, i, dir_exists, files, printed, page_text, extracted_uci>>
    /\ UNCHANGED validate_vars
    /\ UNCHANGED extract_vars

Next ==
    \/ Start
    \/ \E t \in PageTexts : ProcessPage(t)
    \/ Finish

Spec == Init /\ [][Next]_vars

(***************************************************************************)
(* The UCI scheme as the specification states it.                          *)
(***************************************************************************)
ClaimAlphabet ==
    <<"A", "B", "C", "D", "E", "F", "G", "H", "K", "L", "M", "R", "T", "V", "W", "X", "Y">>

ClaimWeights == <<16, 15, 14, 13, 12, 11, 10, 9, 8, 7, 6, 5>>

\* A1 .. P16, then Q10 .. W16, then X10 Y11 Z12
ClaimLetterValue(c) ==
    LET n == IndexOf(UpperLetters, c)
    IN  IF n <= 16 THEN n ELSE IF n <= 23 THEN n - 7 ELSE n - 14

\* five decimal digits, one character of [A-Z0-9], six decimal digits
ClaimPrefixShape(s) ==
    /\ Len(s) >= 12
    /\ \A k \in (1..5) \cup (7..12) : IsDecimalDigit(s[k])
    /\ s[6] \in UpperSet \cup DigitSet

ClaimShape(s) ==
    /\ Len(s) = 13
    /\ ClaimPrefixShape(s)
    /\ s[13] \in Range(ClaimAlphabet)

ClaimValue(s, k) ==
    IF k = 6 /\ s[k] \in UpperSet THEN ClaimLetterValue(s[k]) ELSE int(s[k])

RECURSIVE ClaimSumTo(_, _)
ClaimSumTo(s, k) ==
    IF k = 0 THEN 0 ELSE ClaimSumTo(s, k - 1) + ClaimValue(s, k) * ClaimWeights[k]

ClaimSum(s) == ClaimSumTo(s, 12)

ClaimCheck(s) == ClaimAlphabet[(ClaimSum(s) % 17) + 1]

\* the indexes at which the latest argument differs from the one before
Edited == {j \in DOMAIN uci : uci[j] # prev_uci[j]}

\* the latest argument is the one before with the character at index k alone replaced
EditedAt(k) ==
    /\ calls >= 2
    /\ Len(prev_uci) = Len(uci)
    /\ Edited = {k}

OtherCase(c) ==
    IF c \in LowerSet THEN UpperLetters[IndexOf(LowerLetters, c)]
    ELSE IF c \in UpperSet THEN LowerLetters[IndexOf(UpperLetters, c)]
    ELSE c

\* the sum is_valid_uci accumulates over the first twelve characters of s
CodeSum(s) == SumLoop(SubSeq(s, 1, 12), 1, 0).total_sum

(***************************************************************************)
(* Claims about is_valid_uci, under SpecValidate.                          *)
(***************************************************************************)

\* C1: is_valid_uci returns a boolean for every argument, and returns TRUE exactly
\* when the argument has 13 characters of the shape five decimal digits, one of
\* [A-Z0-9], six decimal digits, one check letter, and its 13th character is the
\* (sum mod 17)-th character of "ABCDEFGHKLMRTVWXY" for the weighted sum of the
\* first twelve; it returns FALSE in every other case.
C1_TotalDecision ==
    returned =>
        /\ result \in BOOLEAN
        /\ result = IF ClaimShape(uci) THEN uci[13] = ClaimCheck(uci) ELSE FALSE
        /\ Len(uci) # 13 => ~result

\* a rejected candidate that one substitution turned into an accepted one
C1_Witness ==
    /\ calls >= 2
    /\ returned
    /\ ClaimShape(prev_uci)
    /\ ~prev_result
    /\ result

\* C2: with positions 0..11 of the lexical shape, replacing the 13th character by
\* its other-case form does not change the result of is_valid_uci.
C2_CheckCharacterCaseInsensitive ==
    (EditedAt(13) /\ ClaimPrefixShape(uci) /\ uci[13] = OtherCase(prev_uci[13]))
        => result = prev_result

\* C6: for a 12-character prefix of the shape, is_valid_uci accepts exactly one 13th
\* character, the (sum mod 17)-th of "ABCDEFGHKLMRTVWXY"; for the all-zero prefix it
\* is "A": "000000000000A" is valid and "000000000000B" is not.
C6_OneCheckCharacter ==
    (returned /\ Len(uci) = 13 /\ ClaimPrefixShape(uci)) =>
        /\ {c \in Chars : is_valid_uci([uci EXCEPT ![13] = c])} = {ClaimCheck(uci)}
        /\ result = (uci[13] = ClaimCheck(uci))
        /\ SubSeq(uci, 1, 12) = Zeros(12) => ClaimCheck(uci) = "A"
        /\ uci = Zeros(12) \o <<"A">> => result
        /\ uci = Zeros(12) \o <<"B">> => ~result

\* "000000000000B" has been rejected
C6_Witness ==
    /\ returned
    /\ uci = Zeros(12) \o <<"B">>
    /\ ~result

\* C7: a letter at position 5 counts with its table value times 11: with zeros
\* elsewhere "J" or "Q" gives sum 110 and check "K", digit "0" gives sum 0 and check
\* "A"; two candidates that differ only in position-5 letters of the same table value
\* have the same result.
C7_Position5Letter ==
    /\ (returned /\ Len(uci) = 13 /\ ClaimPrefixShape(uci) /\ uci[6] \in UpperSet) =>
            CodeSum(uci) = CodeSum([uci EXCEPT ![6] = "0"]) + 11 * ClaimLetterValue(uci[6])
    /\ (returned /\ Len(uci) = 13 /\ uci[6] \in {"J", "Q"}
            /\ [uci EXCEPT ![6] = "0", ![13] = "0"] = Zeros(13)) =>
            /\ CodeSum(uci) = 110
            /\ result = (uci[13] = "K")
    /\ (returned /\ Len(uci) = 13 /\ [uci EXCEPT ![13] = "0"] = Zeros(13)) =>
            /\ CodeSum(uci) = 0
            /\ result = (uci[13] = "A")
    /\ (EditedAt(6) /\ uci[6] \in UpperSet /\ prev_uci[6] \in UpperSet
            /\ ClaimLetterValue(uci[6]) = ClaimLetterValue(prev_uci[6])) =>
            result = prev_result

\* "J" at position 5 of an accepted candidate has been replaced by "Q"
C7_Witness ==
    /\ EditedAt(6)
    /\ prev_uci[6] = "J"
    /\ uci[6] = "Q"
    /\ prev_result
    /\ result

\* C10: in an accepted candidate, replacing the digit at one of positions 0..4 or
\* 6..11 (or at position 5, digit by digit) by a decimal digit of another value
\* gives a candidate is_valid_uci rejects.
C10_DigitSubstitutionDetected ==
    (calls >= 2 /\ Len(prev_uci) = Len(uci) /\ prev_result) =>
        LET edited == Edited
        IN  \A k \in edited \cap (1..12) :
                (edited = {k} /\ IsDecimalDigit(prev_uci[k]) /\ IsDecimalDigit(uci[k])
                    /\ int(prev_uci[k]) # int(uci[k]))
                => ~result

\* the last core digit of an accepted candidate has been replaced by "7"
C10_Witness ==
    /\ EditedAt(12)
    /\ prev_result
    /\ prev_uci[12] \in {"0", "1"}
    /\ uci[12] = "7"
    /\ ~result

(***************************************************************************)
(* Claims about extract_uci, under SpecExtract.                            *)
(***************************************************************************)

\* the runs the specification asks the scanner for, from index p on: 13 characters
\* of [A-Z0-9] with no letter or digit right before or right after
ClaimTokenAt(t, p) ==
    /\ p + 12 <= Len(t)
    /\ \A k \in p..(p + 12) : t[k] \in UpperSet \cup DigitSet
    /\ p > 1 => ~isalnum(t[p - 1])
    /\ p + 13 <= Len(t) => ~isalnum(t[p + 13])

RECURSIVE ClaimTokenStarts(_, _)
ClaimTokenStarts(t, p) ==
    IF p > Len(t) THEN <<>>
    ELSE IF ClaimTokenAt(t, p) THEN <<p>> \o ClaimTokenStarts(t, p + 1)
    ELSE ClaimTokenStarts(t, p + 1)

\* C3: extract_uci returns the first candidate of the scanner's list that
\* is_valid_uci accepts: the candidates before it are invalid, it is a candidate and
\* valid, and the result is None exactly when no candidate validates.
C3_FirstValidCandidate ==
    scanned =>
        /\ (extracted = None) = (\A n \in DOMAIN potential_UCIs : ~is_valid_uci(potential_UCIs[n]))
        /\ extracted # None =>
            \E n \in DOMAIN potential_UCIs :
                /\ potential_UCIs[n] = extracted
                /\ is_valid_uci(extracted)
                /\ \A m \in 1..(n - 1) : ~is_valid_uci(potential_UCIs[m])

\* two candidates, the first invalid, the second returned
C3_Witness ==
    /\ scanned
    /\ Len(potential_UCIs) = 2
    /\ ~is_valid_uci(potential_UCIs[1])
    /\ extracted = potential_UCIs[2]

\* C4: every candidate of the scanner has exactly 13 characters of {A-Z, 0-9} and
\* stands in the text with no alphanumeric character right before or right after it.
C4_CandidatesAreWholeRuns ==
    scanned =>
        LET starts == MatchStarts(text, 1)
        IN  /\ Len(potential_UCIs) = Len(starts)
            /\ \A n \in DOMAIN potential_UCIs :
                LET p == starts[n]
                    c == potential_UCIs[n]
                IN  /\ c = SubSeq(text, p, p + 12)
                    /\ Len(c) = 13
                    /\ \A k \in 1..Len(c) : c[k] \in UpperSet \cup DigitSet
                    /\ p > 1 => ~isalnum(text[p - 1])
                    /\ p + 13 <= Len(text) => ~isalnum(text[p + 13])

\* one candidate found between two hyphens
C4_Witness ==
    /\ scanned
    /\ Len(text) = 15
    /\ text[1] = "-"
    /\ text[15] = "-"
    /\ Len(potential_UCIs) = 1

\* C5: the scanner reports every run of exactly 13 characters of {A-Z, 0-9} that has
\* no letter or digit right before or after it (punctuation such as "_" or "-", or
\* the start or end of the text), in left-to-right order.
C5_EveryBoundedRunReported ==
    scanned =>
        LET starts == ClaimTokenStarts(text, 1)
        IN  potential_UCIs = [n \in 1..Len(starts) |-> SubSeq(text, starts[n], starts[n] + 12)]

(***************************************************************************)
(* Claims about split_pdf_by_uci, under Spec.                              *)
(***************************************************************************)

\* the loop handles a page and extract_uci finds no UCI on it
SkipsPage ==
    /\ pc = "loop"
    /\ i < doc_pages
    /\ i' = i + 1
    /\ extracted_uci' = None

\* the pages are taken in order and the loop ends only when all are handled
InOrder ==
    /\ i \in 0..doc_pages
    /\ \A n \in DOMAIN printed : printed[n].page < i
    /\ \A n \in DOMAIN printed : \A m \in 1..(n - 1) : printed[m].page < printed[n].page
    /\ pc = "done" => i = doc_pages
    /\ (pc = "loop" /\ i < doc_pages) => ENABLED (\E t \in PageTexts : ProcessPage(t))

\* C8 (as the specification states it): a page without a valid UCI produces no
\* output file and a diagnostic for that page is emitted.
C8_DiagnosticForSkippedPage ==
    [][SkipsPage => (files' = files /\ Len(printed') = Len(printed) + 1)]_vars

\* C8 (amended): the pages are processed in order; a page without a valid UCI
\* produces no output file and prints nothing, and the loop goes on to the next page.
C8_SkippedPageLeavesNoTrace ==
    /\ []InOrder
    /\ [][SkipsPage =>
            (files' = files /\ printed' = printed /\ pc' = "loop" /\ doc_pages' = doc_pages)]_vars

\* three pages handled, the first two skipped, the third saved
C8_Witness ==
    /\ pc = "done"
    /\ doc_pages = 3
    /\ Len(printed) = 1
    /\ printed[1].page = 2
    /\ Cardinality(DOMAIN files) = 1

\* C9: at the end there is one output file per page that resolved to a UCI, each
\* holding that page, also when two pages resolve to the same UCI.
C9_OneFilePerResolvedPage ==
    pc = "done" =>
        /\ Cardinality(DOMAIN files) = Len(printed)
        /\ \A n \in DOMAIN printed :
            /\ OutputPath(printed[n].uci) \in DOMAIN files
            /\ files[OutputPath(printed[n].uci)] = printed[n].page

====
